---- MODULE Spec2Model ----
(***************************************************************************)
(* A model of the filewatcher (src/src/lib.rs, src/src/main.rs): the       *)
(* Debouncer with its background loop, the event-driven producer           *)
(* (run_watcher), the polling producer (run_poller) with scan_dir, the     *)
(* path filters and the SHUTDOWN flag.                                     *)
(*                                                                         *)
(* Strings are sequences of one-character strings, a Path is a sequence of *)
(* components (each a string).  Time is discrete: one Tick is one unit of  *)
(* the clock the debounce duration is measured in.                         *)
(***************************************************************************)
EXTENDS Integers, Sequences, FiniteSets, TLC

VARIABLES
  mode,          \* "api": the Debouncer driven through send/shutdown;
                 \* "owner": the same up to its drop, the calls numbered;
                 \* "sink": the same, with a sink that fails;
                 \* "watch": run_watcher; "poll": run_poller (Config.poll)
  root,          \* the canonicalized watched root (a Path)
  rootExists,    \* the configured root resolves: fs::canonicalize is Ok
  fs,            \* the file system under root: file -> mtime, 0 = absent
  fsLeft,        \* file-system operations the environment has yet to do
  SHUTDOWN,      \* the process-wide AtomicBool
  mainPc,        \* position of the thread that owns the Debouncer
  events,        \* rx of run_watcher: raw results queued by the notify watcher
  state,         \* run_poller's snapshot: HashMap PathBuf -> mtime
  txOpen,        \* Debouncer.tx is Some (the intake channel has its sender)
  handle,        \* Debouncer.handle is Some
  chan,          \* messages buffered in the intake channel
  pending,       \* the background loop's HashSet
  debPc,         \* position of the background loop
  afterFlush,    \* where the loop goes when the running flush returns
  timer,         \* time left of the running recv_timeout(debounce)
  sinkBuf,       \* lines written to the writer and not yet flushed by it
  sinkOut,       \* lines the writer has passed on to its consumer
  sent,          \* history: strings passed to send() while tx was Some
  nSends,        \* history: number of send() calls
  sinceArrival,  \* history: time since the last send(), capped at Debounce
  sinceRecv,     \* history: time since the loop last received a path, capped
  burst,         \* history: strings sent in the current burst
  burstAge,      \* history: time since the burst's first send(), capped
  flushesSinceSend, \* history: flush batches begun since the last send()
  batch,         \* history: lines written by the latest flush batch
  touched,       \* history: files changed since the latest snapshot
  changedEver,   \* history: files created, written or removed so far
  aliased,       \* history: some change was invisible to a snapshot diff
  args,          \* main: the command line after the program name
  config,        \* main: the Config parse_args returned, NoConfig before
  handlers,      \* install_signal_handlers has run
  result,        \* what run_watcher / run_poller returns: "none" while it
                 \* has not decided, "Ok" or "Err"
  stderr,        \* messages written with eprintln!
  faultsLeft,    \* faults the environment has yet to inject: a failing
                 \* set-up, an error of the watcher
  callIn,        \* the arguments of a function called on its own; in
                 \* mode "owner" the latest call on the Debouncer
  callOut        \* what the call returned

vars == <<mode, root, rootExists, fs, fsLeft, SHUTDOWN, mainPc, events, state,
          txOpen, handle, chan, pending, debPc, afterFlush, timer,
          sinkBuf, sinkOut, sent, nSends, sinceArrival, sinceRecv, burst,
          burstAge, flushesSinceSend, batch, touched,
          changedEver, aliased, args, config, handlers, result, stderr,
          faultsLeft, callIn, callOut>>

debVars == <<txOpen, handle, chan, pending, debPc, afterFlush, timer,
             sinkBuf, sinkOut>>
histVars == <<sent, nSends, sinceArrival, sinceRecv, burst, burstAge,
              flushesSinceSend, batch>>
progVars == <<mode, root, rootExists, fs, fsLeft, SHUTDOWN, events, state,
              touched, changedEver, aliased>>
callVars == <<callIn, callOut>>
procVars == <<args, config, handlers, result, stderr, faultsLeft,
              callVars>>

(***************************************************************************)
(* Bounds of the model.                                                    *)
(***************************************************************************)
\* The debounce duration (Config.debounce), in ticks.
Debounce == 2
\* send() calls made by the caller of the Debouncer in mode "api".
MaxSends == 3
\* File-system operations performed by the environment.
MaxFsOps == 2
\* The same where termination is checked.
MaxTermOps == 1
\* Distinct modification timestamps the file system hands out.
MaxMtime == 2
\* Faults the environment injects in one run.
MaxFaults == 1
\* Calls the owner of a Debouncer makes on it (send, shutdown, drop).
MaxCalls == 4
\* File-system operations of a run in which the root comes and goes.
MaxRootOps == 2

(***************************************************************************)
(* Strings                                                                 *)
(***************************************************************************)
EndsWith(s, suf) ==
  /\ Len(suf) <= Len(s)
  /\ SubSeq(s, Len(s) - Len(suf) + 1, Len(s)) = suf

StartsWithChar(s, c) == Len(s) > 0 /\ s[1] = c

Slash == <<"/">>

RECURSIVE JoinComponents(_)
JoinComponents(path) ==
  IF path = <<>> THEN <<>>
  ELSE Slash \o Head(path) \o JoinComponents(Tail(path))

\* path.to_string_lossy() of an absolute path
to_string_lossy(path) == JoinComponents(path)

Range(q) == { q[i] : i \in DOMAIN q }

(***************************************************************************)
(* Names, paths and the configuration                                      *)
(***************************************************************************)
Str_php          == <<".", "p", "h", "p">>
Str_vendor       == <<"v", "e", "n", "d", "o", "r">>
Str_node_modules == <<"n", "o", "d", "e", "_", "m", "o", "d", "u", "l", "e", "s">>
Str_git          == <<".", "g", "i", "t">>
Str_b_php        == <<"b">> \o Str_php
Str_c_php        == <<"c">> \o Str_php
Str_l_php        == <<"l">> \o Str_php
Str_b_txt        == <<"b", ".", "t", "x", "t">>
Str_hidden_php   == <<".", "h">> \o Str_php

\* Config.extensions for the default --ext php: parse_extensions("php")
Extensions == <<Str_php>>

\* Watched roots after fs::canonicalize: /w and /.t (a root below a dot
\* directory, such as the /tmp/.tmpXXXX of tempfile::tempdir()).
RootPlain == << <<"w">> >>
RootDot   == << <<".", "t">> >>
Roots     == {RootPlain, RootDot}

\* Files the environment creates, writes and removes, relative to the root.
File_b_php  == << Str_b_php >>
File_b_txt  == << Str_b_txt >>
File_git    == << Str_git, Str_c_php >>
File_vendor == << Str_vendor, Str_l_php >>
File_hidden == << Str_hidden_php >>
File_sub    == << <<"s">>, Str_c_php >>
Files == {File_b_php, File_b_txt, File_git, File_vendor, File_hidden,
          File_sub}

Abs(r, f) == r \o f

(***************************************************************************)
(* Filter (lib.rs 142-164)                                                 *)
(***************************************************************************)
\* (mutant) a test that finds the extension anywhere in the path
matches_extension_anywhere(path, exts) ==
  \E i \in DOMAIN exts, j \in 0..Len(path) :
    j + Len(exts[i]) <= Len(path)
      /\ SubSeq(path, j + 1, j + Len(exts[i])) = exts[i]

matches_extension(path, exts) ==
  \E i \in DOMAIN exts : EndsWith(path, exts[i])

IgnoredName(name) ==
  StartsWithChar(name, ".") \/ name = Str_vendor \/ name = Str_node_modules

\* path.file_name() is None for a path without a final normal component
is_ignored(path) ==
  IF path = <<>> THEN FALSE ELSE IgnoredName(path[Len(path)])

is_ignored_path(path) ==
  \E i \in DOMAIN path : IgnoredName(path[i])

(***************************************************************************)
(* The output sink: main.rs hands run_* a BufWriter over stdout.  A write  *)
(* goes to the writer's buffer, flush() passes the buffer on.  (The        *)
(* buffer's capacity, 8 KiB, is never reached by the lines of the model.)  *)
(***************************************************************************)
Str_changed == <<"c", "h", "a", "n", "g", "e", "d", ":", " ">>

\* writeln!(writer, "changed: {}", p)
Line(p) == Str_changed \o p \o <<"\n">>

WriterWrite(buf, line) == Append(buf, line)

WriterFlushOut(out, buf) == out \o buf

(***************************************************************************)
(* Debouncer (lib.rs 166-238)                                              *)
(***************************************************************************)
\* The histories of arrival times, bursts and batches are kept while the
\* Debouncer is driven through its interface (mode "api"); under a producer
\* they stay as Debouncer::new left them.
Tracking == mode = "api"

\* tx.send(path) for each string of the sequence ps, by Debouncer::send:
\* nothing is sent once tx is None.
SendAll(ps) ==
  /\ chan' = IF txOpen THEN chan \o ps ELSE chan
  /\ sent' = IF txOpen THEN sent \cup Range(ps) ELSE sent
  /\ IF ps = <<>> \/ ~txOpen \/ ~Tracking
       THEN UNCHANGED <<sinceArrival, burst, burstAge, flushesSinceSend>>
       ELSE /\ sinceArrival' = 0
            /\ burst' = (IF sinceArrival >= Debounce THEN {} ELSE burst)
                          \cup Range(ps)
            /\ burstAge' = IF sinceArrival >= Debounce THEN 0 ELSE burstAge
            /\ flushesSinceSend' = 0

\* (mutant) shutdown that drops the sender and returns without joining
ShutdownCallNoJoin ==
  /\ txOpen' = FALSE
  /\ handle' = FALSE
  /\ mainPc' = "returned"

\* (mutant) shutdown that joins without dropping the sender
ShutdownCallKeepSender ==
  /\ txOpen' = txOpen
  /\ IF handle
       THEN handle' = FALSE /\ mainPc' = "joining"
       ELSE handle' = handle /\ mainPc' = "returned"

\* (mutant) a shutdown that joins whether or not the handle is still there
ShutdownCallJoinAgain ==
  /\ txOpen' = FALSE
  /\ handle' = FALSE
  /\ mainPc' = "joining"

\* Debouncer::shutdown: tx.take(), then join the handle if it is still there
ShutdownCall ==
  /\ txOpen' = FALSE
  /\ IF handle
       THEN handle' = FALSE /\ mainPc' = "joining"
       ELSE handle' = handle /\ mainPc' = "returned"

\* handle.join() returns once the background thread has ended
JoinReturn ==
  /\ mainPc = "joining"
  /\ debPc = "done"
  /\ mainPc' = "returned"
  /\ UNCHANGED <<debVars, histVars, progVars, procVars, nSends>>

\* (mutant) a fixed window: the timeout is armed by the first pending path
\* only and later arrivals leave it running
InsertReceivedFixedWindow ==
  /\ pending' = pending \cup {Head(chan)}
  /\ chan' = Tail(chan)
  /\ timer' = IF pending = {} THEN Debounce ELSE timer
  /\ sinceRecv' = IF Tracking THEN 0 ELSE sinceRecv

\* pending.insert(path) after a receive; the next iteration arms
\* recv_timeout(debounce) anew
InsertReceived ==
  /\ pending' = pending \cup {Head(chan)}
  /\ chan' = Tail(chan)
  /\ timer' = Debounce
  /\ sinceRecv' = IF Tracking THEN 0 ELSE sinceRecv

\* loop head with pending empty: rx.recv() returns Ok(path)
DebRecvMsg ==
  /\ debPc = "loop" /\ pending = {}
  /\ chan # <<>>
  /\ InsertReceived
  /\ UNCHANGED <<txOpen, handle, debPc, afterFlush, sinkBuf, sinkOut, mainPc,
                 progVars, procVars, sent, nSends, sinceArrival, burst,
                 burstAge, flushesSinceSend, batch>>

\* rx.recv() returns Err: the channel is empty and its sender dropped; break
DebRecvClosed ==
  /\ debPc = "loop" /\ pending = {}
  /\ chan = <<>> /\ ~txOpen
  /\ debPc' = "done"
  /\ UNCHANGED <<txOpen, handle, chan, pending, afterFlush, timer, sinkBuf,
                 sinkOut, mainPc, progVars, procVars, histVars>>

\* loop head with pending non-empty: rx.recv_timeout(debounce) returns Ok(path)
DebTimeoutMsg ==
  /\ debPc = "loop" /\ pending # {}
  /\ chan # <<>>
  /\ InsertReceived
  /\ UNCHANGED <<txOpen, handle, debPc, afterFlush, sinkBuf, sinkOut, mainPc,
                 progVars, procVars, sent, nSends, sinceArrival, burst,
                 burstAge, flushesSinceSend, batch>>

\* Self::flush is entered: the batch begins
BeginFlush(next) ==
  /\ debPc' = "flush"
  /\ afterFlush' = next
  /\ timer' = 0
  /\ flushesSinceSend' = IF Tracking THEN flushesSinceSend + 1
                         ELSE flushesSinceSend
  /\ batch' = {}

\* (mutant) a timeout that does not wait: the flush follows the receive
DebTimeoutNoWait ==
  /\ debPc = "loop" /\ pending # {}
  /\ chan = <<>> /\ txOpen
  /\ BeginFlush("loop")
  /\ UNCHANGED <<txOpen, handle, chan, pending, sinkBuf, sinkOut, mainPc,
                 progVars, procVars, sent, nSends, sinceArrival, sinceRecv, burst,
                 burstAge>>

\* recv_timeout returns Err(Timeout): nothing arrived for the whole duration
DebTimeout ==
  /\ debPc = "loop" /\ pending # {}
  /\ chan = <<>> /\ txOpen
  /\ timer = 0
  /\ BeginFlush("loop")
  /\ UNCHANGED <<txOpen, handle, chan, pending, sinkBuf, sinkOut, mainPc,
                 progVars, procVars, sent, nSends, sinceArrival, sinceRecv, burst,
                 burstAge>>

\* recv_timeout returns Err(Disconnected): final flush, then break
DebDisconnected ==
  /\ debPc = "loop" /\ pending # {}
  /\ chan = <<>> /\ ~txOpen
  /\ BeginFlush("done")
  /\ UNCHANGED <<txOpen, handle, chan, pending, sinkBuf, sinkOut, mainPc,
                 progVars, procVars, sent, nSends, sinceArrival, sinceRecv, burst,
                 burstAge>>

\* (mutant) a loop over the pending set that leaves the set as it is
FlushWriteKeep ==
  /\ debPc = "flush"
  /\ \E p \in pending :
       /\ pending' = pending
       /\ sinkBuf' = WriterWrite(sinkBuf, Line(p))
       /\ batch' = IF Tracking THEN batch \cup {Line(p)} ELSE batch
  /\ UNCHANGED <<txOpen, handle, chan, debPc, afterFlush, timer, sinkOut,
                 mainPc, progVars, procVars, sent, nSends, sinceArrival, sinceRecv,
                 burst, burstAge, flushesSinceSend>>

\* one turn of `for p in pending.drain()`: any element, HashSet order
FlushWrite ==
  /\ debPc = "flush"
  /\ \E p \in pending :
       /\ pending' = pending \ {p}
       /\ sinkBuf' = WriterWrite(sinkBuf, Line(p))
       /\ batch' = IF Tracking THEN batch \cup {Line(p)} ELSE batch
  /\ UNCHANGED <<txOpen, handle, chan, debPc, afterFlush, timer, sinkOut,
                 mainPc, progVars, procVars, sent, nSends, sinceArrival, sinceRecv,
                 burst, burstAge, flushesSinceSend>>

\* (mutant) flush() returns without writer.flush()
FlushEndNoFlush ==
  /\ debPc = "flush"
  /\ pending = {}
  /\ debPc' = afterFlush
  /\ UNCHANGED <<txOpen, handle, chan, pending, afterFlush, timer, sinkBuf,
                 sinkOut, mainPc, progVars, procVars, histVars>>

\* the drain is over: writer.flush(), and flush() returns
FlushEnd ==
  /\ debPc = "flush"
  /\ pending = {}
  /\ sinkOut' = WriterFlushOut(sinkOut, sinkBuf)
  /\ sinkBuf' = <<>>
  /\ debPc' = afterFlush
  /\ UNCHANGED <<txOpen, handle, chan, pending, afterFlush, timer, mainPc,
                 progVars, procVars, histVars>>

\* One unit of time passes.
Tick ==
  /\ timer' = IF timer > 0 THEN timer - 1 ELSE 0
  /\ sinceArrival' = IF Tracking /\ sinceArrival < Debounce
                       THEN sinceArrival + 1 ELSE sinceArrival
  /\ sinceRecv' = IF Tracking /\ sinceRecv < Debounce
                    THEN sinceRecv + 1 ELSE sinceRecv
  /\ burstAge' = IF Tracking /\ burstAge <= Debounce
                   THEN burstAge + 1 ELSE burstAge
  /\ UNCHANGED <<txOpen, handle, chan, pending, debPc, afterFlush, sinkBuf,
                 sinkOut, mainPc, progVars, procVars, sent, nSends, burst,
                 flushesSinceSend, batch>>

Debouncer ==
  \/ DebRecvMsg \/ DebRecvClosed \/ DebTimeoutMsg \/ DebTimeout
  \/ DebDisconnected \/ FlushWrite \/ FlushEnd

(***************************************************************************)
(* The Debouncer driven through its interface: send and shutdown called by *)
(* the thread that owns it, in any order and at any time.                  *)
(***************************************************************************)
ApiPaths == { to_string_lossy(Abs(RootPlain, f)) :
                f \in {File_b_php, File_vendor, File_hidden} }

ApiSend ==
  /\ mode = "api"
  /\ mainPc \in {"run", "returned"}
  /\ nSends < MaxSends
  /\ \E p \in ApiPaths : SendAll(<<p>>)
  /\ nSends' = nSends + 1
  /\ UNCHANGED <<txOpen, handle, pending, debPc, afterFlush, timer, sinkBuf,
                 sinkOut, mainPc, progVars, procVars, sinceRecv, batch>>

ApiShutdown ==
  /\ mode = "api"
  /\ mainPc \in {"run", "returned"}
  /\ ShutdownCall
  /\ UNCHANGED <<chan, pending, debPc, afterFlush, timer, sinkBuf, sinkOut,
                 progVars, procVars, histVars>>

\* Debouncer::new: the channel is empty, the thread stands at its loop head
DebouncerNew ==
  /\ txOpen = TRUE /\ handle = TRUE
  /\ chan = <<>> /\ pending = {}
  /\ debPc = "loop" /\ afterFlush = "loop" /\ timer = 0
  /\ sinkBuf = <<>> /\ sinkOut = <<>>
  /\ sent = {} /\ nSends = 0
  /\ sinceArrival = Debounce /\ sinceRecv = Debounce
  /\ burst = {} /\ burstAge = Debounce + 1
  /\ flushesSinceSend = 0 /\ batch = {}

EmptyMap == [p \in {} |-> 0]

\* no function is called on its own
NotReturned == [done |-> FALSE, val |-> FALSE]
NoCall == callIn = [path |-> <<>>, exts |-> <<>>] /\ callOut = NotReturned

NoConfig ==
  [extensions |-> <<>>, poll |-> FALSE, poll_interval |-> 0, debounce |-> 0,
   paths |-> <<>>]

\* The Config of a run: --ext php, the default durations (lib.rs 51-52) in
\* milliseconds, one root.  The model's Debounce is config.debounce in ticks.
ConfigOf(m, r) ==
  [extensions |-> Extensions, poll |-> (m = "poll"), poll_interval |-> 500,
   debounce |-> 300, paths |-> << r >>]

InitDeb ==
  /\ mode = "api"
  /\ root = RootPlain
  /\ rootExists = TRUE
  /\ fs = [f \in Files |-> 0]
  /\ fsLeft = 0
  /\ SHUTDOWN = FALSE
  /\ mainPc = "run"
  /\ events = <<>>
  /\ state = EmptyMap
  /\ touched = {}
  /\ changedEver = {}
  /\ aliased = FALSE
  /\ args = <<>> /\ config = NoConfig /\ handlers = FALSE
  /\ result = "none" /\ stderr = <<>> /\ faultsLeft = 0
  /\ NoCall
  /\ DebouncerNew

NextDeb == ApiSend \/ ApiShutdown \/ JoinReturn \/ Debouncer \/ Tick

SpecDeb == InitDeb /\ [][NextDeb]_vars

\* Time passes, the background thread is scheduled and join() returns once
\* the thread has ended; the caller is free to stop calling.
FairDeb == WF_vars(Tick) /\ WF_vars(Debouncer) /\ WF_vars(JoinReturn)

FairSpecDeb == SpecDeb /\ FairDeb

(***************************************************************************)
(* The Debouncer with a sink that fails: writeln! and writer.flush() may   *)
(* return Err, which flush() discards (`let _ =`, lib.rs 228, 230).        *)
(***************************************************************************)
\* (mutant) a flush that gives up at the first failed write
FlushWriteFailAbort ==
  /\ debPc = "flush"
  /\ \E p \in pending : pending' = pending \ {p}
  /\ debPc' = afterFlush
  /\ UNCHANGED <<txOpen, handle, chan, afterFlush, timer, sinkBuf, sinkOut,
                 mainPc, progVars, procVars, histVars>>

\* one turn of the drain whose writeln! fails: the path is gone from the
\* set, no line reaches the writer, the loop goes on
FlushWriteFail ==
  /\ debPc = "flush"
  /\ \E p \in pending : pending' = pending \ {p}
  /\ UNCHANGED <<txOpen, handle, chan, debPc, afterFlush, timer, sinkBuf,
                 sinkOut, mainPc, progVars, procVars, histVars>>

\* the drain is over and writer.flush() fails: the writer keeps what it
\* holds, flush() returns
FlushEndFail ==
  /\ debPc = "flush"
  /\ pending = {}
  /\ debPc' = afterFlush
  /\ UNCHANGED <<txOpen, handle, chan, pending, afterFlush, timer, sinkBuf,
                 sinkOut, mainPc, progVars, procVars, histVars>>

SinkFailure == FlushWriteFail \/ FlushEndFail

\* send and shutdown called by the owner of a Debouncer whose sink fails
\* (mode "sink": the histories of bursts and batches are not kept)
SinkSend ==
  /\ mode = "sink"
  /\ mainPc \in {"run", "returned"}
  /\ nSends < MaxSends
  /\ \E p \in ApiPaths : SendAll(<<p>>)
  /\ nSends' = nSends + 1
  /\ UNCHANGED <<txOpen, handle, pending, debPc, afterFlush, timer, sinkBuf,
                 sinkOut, mainPc, progVars, procVars, sinceRecv, batch>>

SinkShutdown ==
  /\ mode = "sink"
  /\ mainPc \in {"run", "returned"}
  /\ ShutdownCall
  /\ UNCHANGED <<chan, pending, debPc, afterFlush, timer, sinkBuf, sinkOut,
                 progVars, procVars, histVars>>

InitSink ==
  /\ mode = "sink"
  /\ root = RootPlain
  /\ rootExists = TRUE
  /\ fs = [f \in Files |-> 0]
  /\ fsLeft = 0
  /\ SHUTDOWN = FALSE
  /\ mainPc = "run"
  /\ events = <<>>
  /\ state = EmptyMap
  /\ touched = {}
  /\ changedEver = {}
  /\ aliased = FALSE
  /\ args = <<>> /\ config = NoConfig /\ handlers = FALSE
  /\ result = "none" /\ stderr = <<>> /\ faultsLeft = 0
  /\ NoCall
  /\ DebouncerNew

NextSink ==
  SinkSend \/ SinkShutdown \/ JoinReturn \/ Debouncer \/ SinkFailure \/ Tick

SpecSink == InitSink /\ [][NextSink]_vars

FairSpecSink == SpecSink /\ FairDeb

(***************************************************************************)
(* The Debouncer from new to drop: its owner calls send and shutdown in    *)
(* any order, any number of times, and drops it (lib.rs 210-221, 234-238). *)
(* callIn holds the latest call and its number.                            *)
(***************************************************************************)
Called(fn) ==
  /\ callIn.fn # "drop"
  /\ callIn.n < MaxCalls
  /\ callIn' = [fn |-> fn, n |-> callIn.n + 1]

OwnerSend ==
  /\ mode = "owner"
  /\ mainPc \in {"run", "returned"}
  /\ nSends < MaxSends
  /\ Called("send")
  /\ \E p \in ApiPaths : SendAll(<<p>>)
  /\ nSends' = nSends + 1
  /\ UNCHANGED <<txOpen, handle, pending, debPc, afterFlush, timer, sinkBuf,
                 sinkOut, mainPc, progVars, args, config, handlers, result,
                 stderr, faultsLeft, callOut, sinceRecv, batch>>

OwnerShutdown ==
  /\ mode = "owner"
  /\ mainPc \in {"run", "returned"}
  /\ Called("shutdown")
  /\ ShutdownCall
  /\ UNCHANGED <<chan, pending, debPc, afterFlush, timer, sinkBuf, sinkOut,
                 progVars, args, config, handlers, result, stderr,
                 faultsLeft, callOut, histVars>>

\* Drop for Debouncer: shutdown(), after which there is nothing to call
OwnerDrop ==
  /\ mode = "owner"
  /\ mainPc \in {"run", "returned"}
  /\ Called("drop")
  /\ ShutdownCall
  /\ UNCHANGED <<chan, pending, debPc, afterFlush, timer, sinkBuf, sinkOut,
                 progVars, args, config, handlers, result, stderr,
                 faultsLeft, callOut, histVars>>

InitOwner ==
  /\ mode = "owner"
  /\ root = RootPlain
  /\ rootExists = TRUE
  /\ fs = [f \in Files |-> 0]
  /\ fsLeft = 0
  /\ SHUTDOWN = FALSE
  /\ mainPc = "run"
  /\ events = <<>>
  /\ state = EmptyMap
  /\ touched = {}
  /\ changedEver = {}
  /\ aliased = FALSE
  /\ args = <<>> /\ config = NoConfig /\ handlers = FALSE
  /\ result = "none" /\ stderr = <<>> /\ faultsLeft = 0
  /\ callIn = [fn |-> "new", n |-> 0] /\ callOut = NotReturned
  /\ DebouncerNew

NextOwner ==
  OwnerSend \/ OwnerShutdown \/ OwnerDrop \/ JoinReturn \/ Debouncer \/ Tick

SpecOwner == InitOwner /\ [][NextOwner]_vars

(***************************************************************************)
(* Properties of the Debouncer                                             *)
(***************************************************************************)
Lines(q) == Range(q)

\* A burst is in progress: the latest send() is less than Debounce old.
BurstInProgress == burst # {} /\ sinceArrival < Debounce

BurstInv ==
  /\ (txOpen /\ BurstInProgress) => flushesSinceSend = 0
  /\ flushesSinceSend <= 1
  /\ flushesSinceSend = 1 =>
        \A p \in burst : p \in pending \/ Line(p) \in batch
  /\ (flushesSinceSend = 1 /\ debPc # "flush") =>
        \A p \in burst : Line(p) \in Lines(sinkOut)

BurstFlushed ==
  /\ flushesSinceSend = 1
  /\ debPc # "flush"
  /\ \A p \in burst : Line(p) \in batch

\* C1: while paths keep arriving less than the debounce duration apart (and
\* the sender is not dropped) no flush batch begins, however long the burst
\* lasts; after the burst exactly one flush batch begins, and it holds every
\* path of the burst.
C1_BurstCoalesced == []BurstInv /\ ((burst # {}) ~> BurstFlushed)

\* a burst of three distinct paths that lasted longer than Debounce without
\* a flush, and was then written by one batch
C1_Witness ==
  /\ txOpen
  /\ Cardinality(burst) = 3
  /\ burstAge > Debounce
  /\ BurstFlushed
  /\ Len(sinkOut) = 3

\* C2: when shutdown() has returned the background thread has ended, every
\* path passed to send() before the call is in the output, and the sink is
\* not written again.
ShutdownComplete ==
  mainPc = "returned" =>
    /\ debPc = "done"
    /\ chan = <<>> /\ pending = {} /\ sinkBuf = <<>>
    /\ \A p \in sent : Line(p) \in Lines(sinkOut)

C2_ShutdownLosesNothing ==
  /\ []ShutdownComplete
  /\ [][mainPc = "returned" => (sinkOut' = sinkOut /\ sinkBuf' = sinkBuf)]_vars

\* shutdown() returned right after the last of two sends (no time passed
\* since): both paths were written by the final flush
C2_Witness ==
  /\ mainPc = "returned"
  /\ Cardinality(sent) = 2
  /\ sinceArrival = 0
  /\ flushesSinceSend = 1
  /\ Cardinality(batch) = 2

\* a flush batch begins on a timeout (the sender is still there)
TimeoutFlushBegins == debPc = "loop" /\ debPc' = "flush" /\ afterFlush' = "loop"

\* C4: a timeout flush begins only when the channel is empty and a full
\* debounce duration has passed since the loop last received a path, hence
\* since the last arrival; it is the only flush until the next arrival; and
\* every pending path is flushed in the end.
C4_SlidingQuietPeriod ==
  /\ [][TimeoutFlushBegins =>
          /\ chan = <<>>
          /\ sinceRecv = Debounce
          /\ sinceArrival = Debounce
          /\ flushesSinceSend' = 1]_vars
  /\ ((pending # {} /\ txOpen) ~> (pending = {} /\ flushesSinceSend = 1))

\* two paths, the second received while the first timeout was running; the
\* flush came more than Debounce after the first arrival
C4_Witness ==
  /\ txOpen /\ debPc = "flush" /\ afterFlush = "loop"
  /\ Cardinality(pending) = 2
  /\ burstAge > Debounce
  /\ sinceArrival = Debounce

\* C10 as stated: a line is flushed before the next line of the batch is
\* written, so the writer never holds two unflushed lines.
C10_FlushAfterEachLine == Len(sinkBuf) <= 1

\* C10 amended: the sink is flushed once per batch, after its last line:
\* whenever the loop is not inside flush(), nothing is left in the writer
\* and the lines of the latest batch have been passed on.
C10_FlushAfterBatch ==
  debPc # "flush" => (sinkBuf = <<>> /\ batch \subseteq Lines(sinkOut))

C10_Witness ==
  /\ debPc = "loop"
  /\ Cardinality(batch) = 2
  /\ Len(sinkOut) = 2
  /\ sinkBuf = <<>>


\* the lines handed to the writer so far
Written == sinkOut \o sinkBuf

\* C13: a flush batch is begun with the pending set non-empty only; each of
\* its writes takes one path out of the set and writes its line, which the
\* batch has not written before; the batch ends with the set empty; and
\* while the loop stands idle (set and channel empty) nothing is written,
\* so no more lines are written than paths were submitted.
C13_FlushDedupClear ==
  /\ [][(debPc # "flush" /\ debPc' = "flush") => pending # {}]_vars
  /\ [][pending' # pending =>
          \/ /\ chan # <<>>
             /\ pending' = pending \cup {Head(chan)} /\ Written' = Written
          \/ \E p \in pending :
               /\ debPc = "flush"
               /\ pending' = pending \ {p}
               /\ Written' = Append(Written, Line(p))
               /\ Line(p) \notin batch]_vars
  /\ [][Written' # Written => pending' # pending \/ sinkOut' = Written]_vars
  /\ [][(debPc = "flush" /\ debPc' # "flush") =>
          pending' = {} /\ batch # {} /\ sinkBuf' = <<>>]_vars
  /\ [][(debPc = "loop" /\ pending = {} /\ chan = <<>>) =>
          (Written' = Written /\ debPc' \in {"loop", "done"})]_vars
  /\ [](Len(Written) <= nSends)

\* one path was submitted twice before the timeout: one line; the loop is
\* idle again
C13_Witness ==
  /\ nSends = 2 /\ Cardinality(sent) = 1
  /\ debPc = "loop" /\ pending = {} /\ chan = <<>> /\ txOpen
  /\ Len(sinkOut) = 1 /\ sinkBuf = <<>>
  /\ flushesSinceSend = 1

\* C20: with a sink whose writes and flushes may fail, the background loop
\* leaves a flush only with the pending set empty, every path leaving the
\* set once (written, or lost by a failed write, never put back); the loop
\* ends only after its sender is dropped; and whatever is submitted is
\* received and flushed in the end: the intake channel and the pending set
\* become empty again.
C20_SinkFailureTolerated ==
  /\ [][debPc = "flush" =>
          /\ debPc' \in {"flush", afterFlush}
          /\ debPc' # "flush" => pending = {} /\ pending' = {}
          /\ pending' \subseteq pending
          /\ Cardinality(pending') >= Cardinality(pending) - 1]_vars
  /\ [][(debPc # "done" /\ debPc' = "done") => (~txOpen /\ chan = <<>>)]_vars
  /\ [](debPc \in {"loop", "flush", "done"})
  /\ (chan # <<>> \/ pending # {}) ~> (chan = <<>> /\ pending = {})

\* two different paths were submitted and received, one write failed and
\* the other path was written and flushed; the set is empty and the loop
\* waits for the next path
C20_Witness ==
  /\ nSends = 2 /\ Cardinality(sent) = 2
  /\ Len(sinkOut) = 1 /\ sinkBuf = <<>>
  /\ debPc = "loop" /\ pending = {} /\ chan = <<>> /\ txOpen

\* a call of shutdown (or the drop) is made; a call of send is made
ShutdownStep ==
  callIn'.n = callIn.n + 1 /\ callIn'.fn \in {"shutdown", "drop"}

SendStep == callIn'.n = callIn.n + 1 /\ callIn'.fn = "send"

\* C21: a call of shutdown, or the drop, made when the handle has already
\* been taken changes nothing of the Debouncer and has returned at once; a
\* send made when the sender has been taken queues nothing and changes
\* nothing either; and once a shutdown has returned the loop has ended with
\* an empty channel, set and writer, and no later step writes a line.
C21_ShutdownIdempotent ==
  /\ [][ShutdownStep /\ ~handle =>
          UNCHANGED <<debVars, sent>> /\ mainPc' = "returned"]_vars
  /\ [][SendStep /\ ~txOpen => UNCHANGED <<debVars, sent, mainPc>>]_vars
  /\ [](mainPc = "returned" =>
          /\ ~txOpen /\ ~handle /\ debPc = "done"
          /\ chan = <<>> /\ pending = {} /\ sinkBuf = <<>>)
  /\ [][mainPc = "returned" => UNCHANGED <<debVars, sent, mainPc>>]_vars

\* shutdown, a send after it, a second shutdown and the drop have all been
\* called: the one send queued nothing and nothing was written
C21_Witness ==
  /\ callIn = [fn |-> "drop", n |-> 4]
  /\ nSends = 1 /\ sent = {}
  /\ mainPc = "returned" /\ sinkOut = <<>>

(***************************************************************************)
(* The file system and the notification primitive (the environment)        *)
(***************************************************************************)
Present(fsv) == { f \in Files : fsv[f] # 0 }

\* The notify watcher queues Ok(event) on rx in event-driven mode.
Event(kind, f) == [kind |-> kind, paths |-> << Abs(root, f) >>]

Notify(kinds, f) ==
  events' = IF mode = "watch"
              THEN events \o [i \in DOMAIN kinds |-> Event(kinds[i], f)]
              ELSE events

\* History of the changes as a snapshot diff can see them (polling mode).
Record(f, hidden) ==
  /\ fsLeft' = fsLeft - 1
  /\ changedEver' = changedEver \cup {f}
  /\ touched' = IF mode = "poll" THEN touched \cup {f} ELSE touched
  /\ aliased' = IF mode = "poll" THEN aliased \/ hidden \/ f \in touched
                ELSE aliased

EnvReady == fsLeft > 0 /\ rootExists /\ mainPc \in {"run", "recv"}

\* fs::write of a new file: the file is created, then its data is written
FsCreate ==
  /\ EnvReady
  /\ \E f \in Files, m \in 1..MaxMtime :
       /\ fs[f] = 0
       /\ fs' = [fs EXCEPT ![f] = m]
       /\ Notify(<<"Create", "ModifyData">>, f)
       /\ Record(f, FALSE)
  /\ UNCHANGED <<procVars, mode, root, rootExists, SHUTDOWN, mainPc, state, debVars,
                 histVars>>

\* The content of a file changes; its new timestamp may equal the old one
\* (the resolution of the file system's timestamps).
FsWrite ==
  /\ EnvReady
  /\ \E f \in Files, m \in 1..MaxMtime :
       /\ fs[f] # 0
       /\ fs' = [fs EXCEPT ![f] = m]
       /\ Notify(<<"ModifyData">>, f)
       /\ Record(f, m = fs[f])
  /\ UNCHANGED <<procVars, mode, root, rootExists, SHUTDOWN, mainPc, state, debVars,
                 histVars>>

FsRemove ==
  /\ EnvReady
  /\ \E f \in Files :
       /\ fs[f] # 0
       /\ fs' = [fs EXCEPT ![f] = 0]
       /\ Notify(<<"Remove">>, f)
       /\ Record(f, FALSE)
  /\ UNCHANGED <<procVars, mode, root, rootExists, SHUTDOWN, mainPc, state, debVars,
                 histVars>>

\* What follows reaches the program through the notify watcher only; a
\* snapshot of the polling mode does not see it (a rename is, for a
\* snapshot, a removal and a creation with the old timestamp).
WatchReady == EnvReady /\ mode = "watch"

\* chmod, chown, utimes: a metadata-only modification
FsChmod ==
  /\ WatchReady
  /\ \E f \in Present(fs) :
       events' = Append(events, Event("ModifyMetadata", f))
  /\ fsLeft' = fsLeft - 1
  /\ UNCHANGED <<procVars, mode, root, rootExists, fs, SHUTDOWN, mainPc, state, touched,
                 changedEver, aliased, debVars, histVars>>

\* a file is opened and read: an access notification
FsRead ==
  /\ WatchReady
  /\ \E f \in Present(fs) :
       events' = Append(events, Event("Access", f))
  /\ fsLeft' = fsLeft - 1
  /\ UNCHANGED <<procVars, mode, root, rootExists, fs, SHUTDOWN, mainPc, state, touched,
                 changedEver, aliased, debVars, histVars>>

\* rename(f, g): one event that carries both paths
FsRename ==
  /\ WatchReady
  /\ \E f \in Present(fs), g \in Files \ Present(fs) :
       /\ fs' = [fs EXCEPT ![f] = 0, ![g] = fs[f]]
       /\ events' = Append(events, [kind |-> "ModifyName",
                                    paths |-> << Abs(root, f), Abs(root, g) >>])
       /\ changedEver' = changedEver \cup {f, g}
  /\ fsLeft' = fsLeft - 1
  /\ UNCHANGED <<procVars, mode, root, rootExists, SHUTDOWN, mainPc, state, touched,
                 aliased, debVars, histVars>>

\* the notify watcher reports an error of its own (a queue overflow, a
\* watch that went away): Err(e) is queued
NotifyError ==
  /\ mode = "watch" /\ mainPc \in {"run", "recv"}
  /\ faultsLeft > 0
  /\ faultsLeft' = faultsLeft - 1
  /\ events' = Append(events, [kind |-> "Error", paths |-> <<>>])
  /\ UNCHANGED <<args, config, handlers, result, stderr, callVars, mode, root, rootExists,
                 fs, fsLeft, SHUTDOWN, state, touched, changedEver, aliased,
                 mainPc, debVars, histVars>>

WatchEnvironment == FsChmod \/ FsRead \/ FsRename

\* SIGINT or SIGTERM with the handler installed: handle() stores true
Signal ==
  /\ handlers
  /\ SHUTDOWN' = TRUE
  /\ UNCHANGED <<procVars, mode, root, rootExists, fs, fsLeft, events, state, touched,
                 changedEver, aliased, mainPc, debVars, histVars>>

(***************************************************************************)
(* scan_dir (lib.rs 240-262)                                               *)
(***************************************************************************)
IsPrefix(d, p) == Len(d) <= Len(p) /\ SubSeq(p, 1, Len(d)) = d

\* fs::read_dir(dir): the entries of dir, given the files that exist
ReadDir(dir, fsv) ==
  { SubSeq(Abs(root, f), 1, Len(dir) + 1) :
      f \in { g \in Present(fsv) :
                IsPrefix(dir, Abs(root, g)) /\ Len(Abs(root, g)) > Len(dir) } }

\* path.is_dir(): some file lies below the entry
IsDir(e, fsv) ==
  \E f \in Present(fsv) : IsPrefix(e, Abs(root, f)) /\ Len(Abs(root, f)) > Len(e)

\* The files scan_dir inserts, walking down from dir.
RECURSIVE ScanDir(_, _)
ScanDir(dir, fsv) ==
  UNION { IF IsDir(e, fsv)
            THEN (IF ~is_ignored(e) THEN ScanDir(e, fsv) ELSE {})
            ELSE (IF matches_extension(to_string_lossy(e), Extensions)
                    THEN {e} ELSE {})
          : e \in ReadDir(dir, fsv) }

\* meta.modified() of a scanned path
Mtime(p, fsv) == fsv[CHOOSE f \in Files : Abs(root, f) = p]

\* the HashMap a scan of the root fills
Snapshot(fsv) == [p \in ScanDir(root, fsv) |-> Mtime(p, fsv)]

\* the HashMap of a tick: the root is scanned if fs::canonicalize finds it
PollScan == IF rootExists THEN Snapshot(fs) ELSE EmptyMap

(***************************************************************************)
(* run_watcher (lib.rs 264-312)                                            *)
(***************************************************************************)
\* the strings sent for the paths of one event, in the order of event.paths
RECURSIVE WatchSends(_, _)
WatchSends(paths, kind) ==
  IF paths = <<>> THEN <<>>
  ELSE LET path == Head(paths)
           rest == WatchSends(Tail(paths), kind)
       IN  IF is_ignored_path(path) THEN rest
           ELSE IF kind = "ModifyMetadata" THEN rest
           ELSE IF kind = "Access" THEN rest
           ELSE IF matches_extension(to_string_lossy(path), Extensions)
             THEN <<to_string_lossy(path)>> \o rest
           ELSE rest

\* (mutant) a break that clears the flag it has seen
WatchBreakClearsFlag ==
  /\ mode = "watch" /\ mainPc = "run"
  /\ SHUTDOWN
  /\ SHUTDOWN' = FALSE
  /\ ShutdownCall
  /\ result' = "Ok"
  /\ UNCHANGED <<chan, pending, debPc, afterFlush, timer, sinkBuf, sinkOut,
                 mode, root, rootExists, fs, fsLeft, events, state, touched, changedEver,
                 aliased, args, config, handlers, stderr, faultsLeft,
                 callVars, histVars>>

\* loop head: SHUTDOWN is set; break, then debouncer.shutdown()
WatchBreak ==
  /\ mode = "watch" /\ mainPc = "run"
  /\ SHUTDOWN
  /\ ShutdownCall
  /\ result' = "Ok"
  /\ UNCHANGED <<chan, pending, debPc, afterFlush, timer, sinkBuf, sinkOut,
                 progVars, args, config, handlers, stderr, faultsLeft,
                 callVars, histVars>>

\* loop head: SHUTDOWN is clear; rx.recv_timeout(100 ms) is entered
WatchWait ==
  /\ mode = "watch" /\ mainPc = "run"
  /\ ~SHUTDOWN
  /\ mainPc' = "recv"
  /\ UNCHANGED <<debVars, progVars, procVars, histVars>>

\* (mutant) an error of the watcher ends the loop as a disconnect does
WatchErrorBreak ==
  /\ mode = "watch" /\ mainPc = "recv"
  /\ events # <<>> /\ Head(events).kind = "Error"
  /\ events' = Tail(events)
  /\ stderr' = Append(stderr, [prefix |-> "watcher error", msg |-> "notify"])
  /\ ShutdownCall
  /\ result' = "Ok"
  /\ UNCHANGED <<args, config, handlers, faultsLeft, callVars,
                 mode, root, rootExists, fs, fsLeft, SHUTDOWN, state, touched,
                 changedEver, aliased, chan, pending, debPc, afterFlush,
                 timer, sinkBuf, sinkOut, histVars>>

\* Ok(Err(e)): eprintln!("watcher error: {}", e), next iteration
WatchError ==
  /\ mode = "watch" /\ mainPc = "recv"
  /\ events # <<>> /\ Head(events).kind = "Error"
  /\ events' = Tail(events)
  /\ stderr' = Append(stderr, [prefix |-> "watcher error", msg |-> "notify"])
  /\ mainPc' = "run"
  /\ UNCHANGED <<args, config, handlers, result, faultsLeft, callVars,
                 mode, root, rootExists, fs, fsLeft, SHUTDOWN, state, touched,
                 changedEver, aliased, debVars, histVars>>

\* Ok(Ok(event)): every path of the event is filtered and sent
WatchEvent ==
  /\ mode = "watch" /\ mainPc = "recv"
  /\ events # <<>> /\ Head(events).kind # "Error"
  /\ events' = Tail(events)
  /\ SendAll(WatchSends(Head(events).paths, Head(events).kind))
  /\ mainPc' = "run"
  /\ UNCHANGED <<procVars, mode, root, rootExists, fs, fsLeft, SHUTDOWN, state, touched,
                 changedEver, aliased, txOpen, handle, pending, debPc,
                 afterFlush, timer, sinkBuf, sinkOut, nSends, sinceRecv,
                 batch>>

\* Err(Timeout): continue
WatchTimeout ==
  /\ mode = "watch" /\ mainPc = "recv"
  /\ events = <<>>
  /\ mainPc' = "run"
  /\ UNCHANGED <<debVars, progVars, procVars, histVars>>

Watcher == WatchBreak \/ WatchWait \/ WatchEvent \/ WatchTimeout

(***************************************************************************)
(* run_poller (lib.rs 314-357)                                             *)
(***************************************************************************)
\* the orders a HashMap may iterate the keys S in
Orders(S) == { q \in [1..Cardinality(S) -> S] : Range(q) = S }

Strings(q) == [i \in DOMAIN q |-> to_string_lossy(q[i])]

\* (mutant) a diff that compares presence and not the timestamps
PollChangedPresenceOnly(old, new) ==
  { p \in DOMAIN new : p \notin DOMAIN old }

\* first loop: created or modified paths of the new snapshot
PollChanged(old, new) ==
  { p \in DOMAIN new : ~(p \in DOMAIN old /\ old[p] = new[p]) }

\* (mutant) a second loop that sends every path of the old snapshot
PollRemovedAll(old, new) == DOMAIN old

\* second loop: paths of the old snapshot the new one lacks
PollRemoved(old, new) ==
  { p \in DOMAIN old : p \notin DOMAIN new }

\* the sleep is over and SHUTDOWN is set: break, then debouncer.shutdown()
PollBreak ==
  /\ mode = "poll" /\ mainPc = "run"
  /\ SHUTDOWN
  /\ ShutdownCall
  /\ result' = "Ok"
  /\ UNCHANGED <<chan, pending, debPc, afterFlush, timer, sinkBuf, sinkOut,
                 progVars, args, config, handlers, stderr, faultsLeft,
                 callVars, histVars>>

\* (mutant) a tick that treats a root it cannot resolve as the start-up
\* does: Err is returned and the Debouncer dropped
PollTickRootFatal ==
  /\ mode = "poll" /\ mainPc = "run"
  /\ ~SHUTDOWN
  /\ IF rootExists
       THEN /\ \E q1 \in Orders(PollChanged(state, PollScan)),
                    q2 \in Orders(PollRemoved(state, PollScan)) :
                    SendAll(Strings(q1) \o Strings(q2))
            /\ state' = PollScan
            /\ touched' = {}
            /\ UNCHANGED <<procVars, mainPc, txOpen, handle>>
       ELSE /\ ShutdownCall
            /\ result' = "Err"
            /\ UNCHANGED <<chan, sent, sinceArrival, burst, burstAge,
                           flushesSinceSend, state, touched, args, config,
                           handlers, stderr, faultsLeft, callVars>>
  /\ UNCHANGED <<mode, root, rootExists, fs, fsLeft, SHUTDOWN, events,
                 changedEver, aliased, pending, debPc, afterFlush,
                 timer, sinkBuf, sinkOut, nSends, sinceRecv, batch>>

\* (mutant) a tick that scans and sends without a look at SHUTDOWN
PollTickUnchecked ==
  /\ mode = "poll" /\ mainPc = "run"
  /\ LET current == PollScan
     IN  /\ \E q1 \in Orders(PollChanged(state, current)),
               q2 \in Orders(PollRemoved(state, current)) :
               SendAll(Strings(q1) \o Strings(q2))
         /\ state' = current
  /\ touched' = {}
  /\ UNCHANGED <<procVars, mode, root, rootExists, fs, fsLeft, SHUTDOWN, events, changedEver,
                 aliased, mainPc, txOpen, handle, pending, debPc, afterFlush,
                 timer, sinkBuf, sinkOut, nSends, sinceRecv, batch>>

\* the sleep is over and SHUTDOWN is clear: scan, diff, send, replace
PollTick ==
  /\ mode = "poll" /\ mainPc = "run"
  /\ ~SHUTDOWN
  /\ LET current == PollScan
     IN  /\ \E q1 \in Orders(PollChanged(state, current)),
               q2 \in Orders(PollRemoved(state, current)) :
               SendAll(Strings(q1) \o Strings(q2))
         /\ state' = current
  /\ touched' = {}
  /\ UNCHANGED <<procVars, mode, root, rootExists, fs, fsLeft, SHUTDOWN, events, changedEver,
                 aliased, mainPc, txOpen, handle, pending, debPc, afterFlush,
                 timer, sinkBuf, sinkOut, nSends, sinceRecv, batch>>

Poller == PollBreak \/ PollTick

(***************************************************************************)
(* The program: main has parsed the configuration and run_watcher or       *)
(* run_poller has built the Debouncer, set up its producer (the watch on   *)
(* the root, or the seed snapshot) and stands at the head of its loop.     *)
(***************************************************************************)
\* the files under the root when the program starts: none, b.txt alone, or
\* all of them
Seeds == { {}, {File_b_txt}, Files }

ProgramStarted(ops) ==
  /\ mode \in {"watch", "poll"}
  /\ root \in Roots
  /\ rootExists = TRUE
  /\ \E S \in Seeds : fs = [f \in Files |-> IF f \in S THEN 1 ELSE 0]
  /\ fsLeft = ops
  /\ SHUTDOWN = FALSE
  /\ mainPc = "run"
  /\ events = <<>>
  /\ state = IF mode = "poll" THEN Snapshot(fs) ELSE EmptyMap
  /\ touched = {}
  /\ changedEver = {}
  /\ aliased = FALSE
  /\ args = <<>>
  /\ config = ConfigOf(mode, root)
  /\ handlers = TRUE
  /\ result = "none" /\ stderr = <<>> /\ faultsLeft = 0
  /\ NoCall
  /\ DebouncerNew

Init == ProgramStarted(MaxFsOps)

Environment == FsCreate \/ FsWrite \/ FsRemove \/ Signal

Next ==
  \/ Environment \/ WatchEnvironment
  \/ Watcher \/ Poller \/ JoinReturn \/ Debouncer \/ Tick

Spec == Init /\ [][Next]_vars

\* Every thread is scheduled and every timed wait ends: the watcher loop
\* (recv_timeout of 100 ms), the poller's sleep once SHUTDOWN is set, the
\* background loop and join().  File changes, signals, poll ticks and the
\* passage of time are free to never happen.
Fair ==
  /\ WF_vars(Watcher) /\ WF_vars(PollBreak)
  /\ WF_vars(Debouncer) /\ WF_vars(JoinReturn)

InitTerm == ProgramStarted(MaxTermOps)

FairSpec == InitTerm /\ [][Next]_vars /\ Fair

\* run_poller alone, on the plain root
InitPoll == Init /\ mode = "poll" /\ root = RootPlain

NextPoll == Environment \/ Poller \/ JoinReturn \/ Debouncer \/ Tick

SpecPoll == InitPoll /\ [][NextPoll]_vars

(***************************************************************************)
(* Polling a root that comes and goes: the directory is removed or renamed *)
(* away with all that is below it, and a directory is later moved into its *)
(* place.                                                                  *)
(***************************************************************************)
RootReady == mode = "poll" /\ fsLeft > 0 /\ mainPc = "run"

\* the history of a change of several files at once
RecordAll(S) ==
  /\ fsLeft' = fsLeft - 1
  /\ changedEver' = changedEver \cup S
  /\ touched' = touched \cup S
  /\ aliased' = (aliased \/ S \cap touched # {})

FsRootRemove ==
  /\ RootReady
  /\ rootExists
  /\ rootExists' = FALSE
  /\ fs' = [f \in Files |-> 0]
  /\ RecordAll(Present(fs))
  /\ UNCHANGED <<procVars, mode, root, SHUTDOWN, mainPc, events, state,
                 debVars, histVars>>

FsRootRestore ==
  /\ RootReady
  /\ ~rootExists
  /\ rootExists' = TRUE
  /\ \E S \in Seeds, m \in 1..MaxMtime :
       /\ fs' = [f \in Files |-> IF f \in S THEN m ELSE 0]
       /\ RecordAll(S)
  /\ UNCHANGED <<procVars, mode, root, SHUTDOWN, mainPc, events, state,
                 debVars, histVars>>

RootEnvironment == FsRootRemove \/ FsRootRestore

InitRoot == ProgramStarted(MaxRootOps) /\ mode = "poll" /\ root = RootPlain

\* the changes of single files below a root that is there are those of
\* NextPoll; here the root alone changes
NextRoot ==
  RootEnvironment \/ Signal \/ Poller \/ JoinReturn \/ Debouncer \/ Tick

SpecRoot == InitRoot /\ [][NextRoot]_vars


(***************************************************************************)
(* run_watcher / run_poller from their entry, with the failures of their   *)
(* set-up and the errors of the notify watcher                             *)
(***************************************************************************)
\* No Debouncer exists: Debouncer::new has not run.
NoDebouncer ==
  /\ txOpen = FALSE /\ handle = FALSE
  /\ chan = <<>> /\ pending = {}
  /\ debPc = "none" /\ afterFlush = "loop" /\ timer = 0
  /\ sinkBuf = <<>> /\ sinkOut = <<>>
  /\ sent = {} /\ nSends = 0
  /\ sinceArrival = Debounce /\ sinceRecv = Debounce
  /\ burst = {} /\ burstAge = Debounce + 1
  /\ flushesSinceSend = 0 /\ batch = {}

\* main has parsed the command line, installed the handlers and calls
\* run_watcher or run_poller on the plain root
InitRun ==
  /\ mode \in {"watch", "poll"}
  /\ root = RootPlain
  /\ rootExists = TRUE
  /\ \E S \in Seeds : fs = [f \in Files |-> IF f \in S THEN 1 ELSE 0]
  /\ fsLeft = MaxTermOps
  /\ SHUTDOWN = FALSE
  /\ mainPc = "enter"
  /\ events = <<>>
  /\ state = EmptyMap
  /\ touched = {}
  /\ changedEver = {}
  /\ aliased = FALSE
  /\ args = <<>>
  /\ config = ConfigOf(mode, root)
  /\ handlers = TRUE
  /\ result = "none" /\ stderr = <<>> /\ faultsLeft = MaxFaults
  /\ NoCall
  /\ NoDebouncer

\* Debouncer::new (lib.rs 265, 315): the thread is spawned
RunNew ==
  /\ mainPc = "enter"
  /\ txOpen' = TRUE /\ handle' = TRUE
  /\ debPc' = "loop"
  /\ mainPc' = "setup"
  /\ UNCHANGED <<chan, pending, afterFlush, timer, sinkBuf, sinkOut, progVars,
                 procVars, histVars>>

\* (mutant) a failed set-up that returns with the Debouncer left running
SetupFailNoDrop ==
  /\ mainPc = "setup"
  /\ faultsLeft > 0
  /\ faultsLeft' = faultsLeft - 1
  /\ result' = "Err"
  /\ mainPc' = "returned"
  /\ UNCHANGED <<args, config, handlers, stderr, callVars, progVars, debVars,
                 histVars>>

\* The set-up fails: RecommendedWatcher::new, fs::canonicalize or
\* watcher.watch returns Err and `?` returns it (lib.rs 268-275, 319).  The
\* Debouncer goes out of scope: Drop calls shutdown().
SetupFail ==
  /\ mainPc = "setup"
  /\ faultsLeft > 0
  /\ faultsLeft' = faultsLeft - 1
  /\ result' = "Err"
  /\ ShutdownCall
  /\ UNCHANGED <<args, config, handlers, stderr, callVars, progVars, chan,
                 pending, debPc, afterFlush, timer, sinkBuf, sinkOut,
                 histVars>>

\* The set-up succeeds: the watcher is subscribed to the root, or the seed
\* snapshot is taken (lib.rs 318-321); the loop is entered.
SetupOk ==
  /\ mainPc = "setup"
  /\ state' = IF mode = "poll" THEN Snapshot(fs) ELSE EmptyMap
  /\ mainPc' = "run"
  /\ UNCHANGED <<mode, root, rootExists, fs, fsLeft, SHUTDOWN, events, touched,
                 changedEver, aliased, procVars, debVars, histVars>>

Setup == RunNew \/ SetupFail \/ SetupOk

NextRun == Setup \/ NotifyError \/ WatchError \/ Next

SpecRun == InitRun /\ [][NextRun]_vars

(***************************************************************************)
(* The command line (lib.rs 43-140)                                        *)
(***************************************************************************)
Flag_ext           == <<"-", "-", "e", "x", "t">>
Flag_poll          == <<"-", "-", "p", "o", "l", "l">>
Flag_poll_interval == Flag_poll \o <<"-", "i", "n", "t", "e", "r", "v", "a", "l">>
Flag_debounce      == <<"-", "-", "d", "e", "b", "o", "u", "n", "c", "e">>

DigitChars == <<"0", "1", "2", "3", "4", "5", "6", "7", "8", "9">>

IsDigit(c) == \E i \in DOMAIN DigitChars : DigitChars[i] = c

DigitVal(c) == (CHOOSE i \in DOMAIN DigitChars : DigitChars[i] = c) - 1

AllDigits(s) == \A i \in DOMAIN s : IsDigit(s[i])

RECURSIVE DecVal(_)
DecVal(s) ==
  IF s = <<>> THEN 0
  ELSE 10 * DecVal(SubSeq(s, 1, Len(s) - 1)) + DigitVal(s[Len(s)])

\* str::strip_suffix: the rest when s ends with suf
StripSuffix(s, suf) == SubSeq(s, 1, Len(s) - Len(suf))

StartsWith(s, pre) == Len(pre) <= Len(s) /\ SubSeq(s, 1, Len(pre)) = pre

Ok(v)  == [tag |-> "Ok", val |-> v]
Err(m) == [tag |-> "Err", msg |-> m]
Panic  == [tag |-> "Panic"]

\* str::parse::<u64>: an optional '+', then one digit or more
parse_u64(s) ==
  LET body == IF StartsWithChar(s, "+") THEN Tail(s) ELSE s
  IN  IF body # <<>> /\ AllDigits(body) THEN Ok(DecVal(body))
      ELSE Err("invalid duration")

\* the position of the decimal point of s, 0 when it has none
PointAt(s) ==
  IF \E i \in DOMAIN s : s[i] = "."
    THEN CHOOSE i \in DOMAIN s : s[i] = "." /\ \A j \in 1..(i - 1) : s[j] # "."
    ELSE 0

Pow10(n) == IF n = 0 THEN 1 ELSE IF n = 1 THEN 10 ELSE IF n = 2 THEN 100 ELSE 1000

\* the first three decimals of a fraction, as thousandths
FracMillis(d) ==
  LET k == IF Len(d) < 3 THEN Len(d) ELSE 3
  IN  DecVal(SubSeq(d, 1, k)) * Pow10(3 - k)

Str_inf == <<"i", "n", "f">>
Str_nan == <<"n", "a", "n">>

\* str::parse::<f64> on the strings of the model: an optional sign, then
\* "inf", "nan", or digits with at most one decimal point and a digit on one
\* side of it at least.  The value is kept in thousandths.  (Exponents and
\* upper-case spellings are outside the strings the model draws.)
parse_f64(s) ==
  LET signed == StartsWithChar(s, "-") \/ StartsWithChar(s, "+")
      neg    == StartsWithChar(s, "-")
      body   == IF signed THEN Tail(s) ELSE s
      pt     == PointAt(body)
      whole  == IF pt = 0 THEN body ELSE SubSeq(body, 1, pt - 1)
      frac   == IF pt = 0 THEN <<>> ELSE SubSeq(body, pt + 1, Len(body))
  IN  IF body = Str_inf THEN Ok([kind |-> "inf", neg |-> neg, millis |-> 0])
      ELSE IF body = Str_nan THEN Ok([kind |-> "nan", neg |-> neg, millis |-> 0])
      ELSE IF /\ AllDigits(whole) /\ AllDigits(frac)
              /\ Len(whole) + Len(frac) > 0
        THEN Ok([kind |-> "num", neg |-> neg,
                 millis |-> 1000 * DecVal(whole) + FracMillis(frac)])
      ELSE Err("invalid duration")

\* Duration::from_secs_f64 panics when the value is negative or not finite
from_secs_f64(x) ==
  IF x.kind # "num" \/ (x.neg /\ x.millis > 0) THEN Panic
  ELSE Ok(x.millis)

\* parse_duration_str: a Duration in milliseconds
parse_duration_str(s) ==
  IF EndsWith(s, <<"m", "s">>)
    THEN parse_u64(StripSuffix(s, <<"m", "s">>))
  ELSE IF EndsWith(s, <<"s">>)
    THEN LET r == parse_f64(StripSuffix(s, <<"s">>))
         IN  IF r.tag = "Ok" THEN from_secs_f64(r.val) ELSE r
  ELSE parse_u64(s)

\* str::split(sep): the pieces of s between the separators
RECURSIVE Split(_, _)
Split(s, sep) ==
  IF \E i \in DOMAIN s : s[i] = sep
    THEN LET i == CHOOSE i \in DOMAIN s :
                    s[i] = sep /\ \A j \in 1..(i - 1) : s[j] # sep
         IN  << SubSeq(s, 1, i - 1) >> \o Split(SubSeq(s, i + 1, Len(s)), sep)
    ELSE << s >>

RECURSIVE Trim(_)
Trim(s) ==
  IF s # <<>> /\ Head(s) = " " THEN Trim(Tail(s))
  ELSE IF s # <<>> /\ s[Len(s)] = " " THEN Trim(SubSeq(s, 1, Len(s) - 1))
  ELSE s

SelectNonEmpty(q) == SelectSeq(q, LAMBDA x : x # <<>>)

\* parse_extensions: split at commas, trim, drop the empty pieces, put a
\* dot before a piece that has none
parse_extensions(raw) ==
  LET pieces  == Split(raw, ",")
      trimmed == SelectNonEmpty([i \in DOMAIN pieces |-> Trim(pieces[i])])
  IN  [i \in DOMAIN trimmed |->
         IF StartsWithChar(trimmed[i], ".") THEN trimmed[i]
         ELSE <<".">> \o trimmed[i]]

\* PathBuf::from of an absolute path string: its normal components
PathBufFrom(s) == SelectNonEmpty(Split(s, "/"))

\* The directory tree of the model stands at RootPlain while the command
\* line is parsed.
FsRoot == RootPlain

\* fs::metadata(p): a directory, a file, or an error
Metadata(p, fsv) ==
  IF p = FsRoot \/ \E f \in Present(fsv) :
                      Len(p) < Len(Abs(FsRoot, f)) /\ IsPrefix(p, Abs(FsRoot, f))
    THEN "dir"
  ELSE IF \E f \in Present(fsv) : p = Abs(FsRoot, f) THEN "file"
  ELSE "none"

\* the locals of parse_args_from before its loop
ArgDefaults ==
  [ext_raw |-> <<"p", "h", "p">>, poll |-> FALSE, poll_interval |-> 500,
   debounce |-> 300, paths |-> <<>>]

\* the checks after the loop: a path at least, every path a directory
RECURSIVE CheckPaths(_, _)
CheckPaths(paths, fsv) ==
  IF paths = <<>> THEN Ok(TRUE)
  ELSE LET meta == Metadata(Head(paths), fsv)
       IN  IF meta = "none" THEN Err("no such file or directory")
           ELSE IF meta # "dir" THEN Err("is not a directory")
           ELSE CheckPaths(Tail(paths), fsv)

ArgsEnd(acc, fsv) ==
  IF acc.paths = <<>> THEN Err("at least one path argument is required")
  ELSE LET c == CheckPaths(acc.paths, fsv)
       IN  IF c.tag # "Ok" THEN c
           ELSE Ok([extensions |-> parse_extensions(acc.ext_raw),
                    poll |-> acc.poll, poll_interval |-> acc.poll_interval,
                    debounce |-> acc.debounce, paths |-> acc.paths])

\* the while loop of parse_args_from, from argument i on
RECURSIVE ArgsLoop(_, _, _, _)
ArgsLoop(a, i, acc, fsv) ==
  IF i > Len(a) THEN ArgsEnd(acc, fsv)
  ELSE IF a[i] = Flag_ext
    THEN IF i + 1 > Len(a) THEN Err("--ext requires a value")
         ELSE ArgsLoop(a, i + 2, [acc EXCEPT !.ext_raw = a[i + 1]], fsv)
  ELSE IF a[i] = Flag_poll
    THEN ArgsLoop(a, i + 1, [acc EXCEPT !.poll = TRUE], fsv)
  ELSE IF a[i] = Flag_poll_interval
    THEN IF i + 1 > Len(a) THEN Err("--poll-interval requires a value")
         ELSE LET d == parse_duration_str(a[i + 1])
              IN  IF d.tag # "Ok" THEN d
                  ELSE ArgsLoop(a, i + 2,
                                [acc EXCEPT !.poll_interval = d.val], fsv)
  ELSE IF a[i] = Flag_debounce
    THEN IF i + 1 > Len(a) THEN Err("--debounce requires a value")
         ELSE LET d == parse_duration_str(a[i + 1])
              IN  IF d.tag # "Ok" THEN d
                  ELSE ArgsLoop(a, i + 2, [acc EXCEPT !.debounce = d.val], fsv)
  ELSE IF StartsWith(a[i], <<"-", "-">>) THEN Err("unknown flag")
  ELSE ArgsLoop(a, i + 1,
                [acc EXCEPT !.paths = Append(@, PathBufFrom(a[i]))], fsv)

parse_args_from(a, fsv) == ArgsLoop(a, 1, ArgDefaults, fsv)

\* Arguments the model draws command lines from.
Arg_unknown   == <<"-", "-", "x">>
Arg_php       == <<"p", "h", "p">>
Arg_5ms       == <<"5", "m", "s">>
Arg_1p5s      == <<"1", ".", "5", "s">>
Arg_minus1s   == <<"-", "1", "s">>
Arg_root      == <<"/", "w">>
Arg_file      == to_string_lossy(Abs(RootPlain, File_b_php))
Arg_missing   == <<"/", "n">>

ArgTokens ==
  {Flag_ext, Flag_poll, Flag_poll_interval, Flag_debounce, Arg_unknown,
   Arg_php, Arg_5ms, Arg_1p5s, Arg_minus1s, Arg_root, Arg_file, Arg_missing}

\* The longest command line.
MaxArgs == 3

ArgVectors == UNION { [1..n -> ArgTokens] : n \in 0..MaxArgs }

\* main is entered
InitArgs ==
  /\ args \in ArgVectors
  /\ config = NoConfig
  /\ handlers = FALSE
  /\ result = "none"
  /\ stderr = <<>>
  /\ faultsLeft = 0
  /\ NoCall
  /\ mode = "none"
  /\ root = <<>>
  /\ rootExists = TRUE
  /\ \E S \in Seeds : fs = [f \in Files |-> IF f \in S THEN 1 ELSE 0]
  /\ fsLeft = 0
  /\ SHUTDOWN = FALSE
  /\ mainPc = "main"
  /\ events = <<>>
  /\ state = EmptyMap
  /\ touched = {}
  /\ changedEver = {}
  /\ aliased = FALSE
  /\ NoDebouncer

\* main.rs 5-11, Ok: the Config is kept
MainParseOk ==
  /\ mainPc = "main"
  /\ LET r == parse_args_from(args, fs)
     IN  /\ r.tag = "Ok"
         /\ config' = r.val
  /\ mainPc' = "parsed"
  /\ UNCHANGED <<args, handlers, result, stderr, faultsLeft, callVars, progVars,
                 debVars, histVars>>

\* main.rs 7-10, Err(e): eprintln!("error: {}", e); process::exit(1)
MainParseErr ==
  /\ mainPc = "main"
  /\ LET r == parse_args_from(args, fs)
     IN  /\ r.tag = "Err"
         /\ stderr' = Append(stderr, [prefix |-> "error", msg |-> r.msg])
  /\ mainPc' = "exit1"
  /\ UNCHANGED <<args, config, handlers, result, faultsLeft, callVars, progVars,
                 debVars, histVars>>

\* parse_args panics: the thread unwinds, the runtime prints the panic
\* message and the process ends with status 101
MainParsePanic ==
  /\ mainPc = "main"
  /\ parse_args_from(args, fs).tag = "Panic"
  /\ stderr' = Append(stderr, [prefix |-> "panicked", msg |-> "from_secs_f64"])
  /\ mainPc' = "exit101"
  /\ UNCHANGED <<args, config, handlers, result, faultsLeft, callVars, progVars,
                 debVars, histVars>>

\* main.rs 13-21: install_signal_handlers(), the writer, then run_poller
\* or run_watcher is entered.  The model follows the first path of the
\* Config.
MainDispatch ==
  /\ mainPc = "parsed"
  /\ handlers' = TRUE
  /\ mode' = IF config.poll THEN "poll" ELSE "watch"
  /\ root' = config.paths[1]
  /\ mainPc' = "enter"
  /\ UNCHANGED <<args, config, result, stderr, faultsLeft, callVars, fs,
                 fsLeft, rootExists,
                 SHUTDOWN, events, state, touched, changedEver, aliased,
                 debVars, histVars>>

Main == MainParseOk \/ MainParseErr \/ MainParsePanic \/ MainDispatch

SpecArgs == InitArgs /\ [][Main]_vars

(***************************************************************************)
(* matches_extension called on its own (lib.rs 142-144)                    *)
(***************************************************************************)
\* The longest path string and the longest extension list drawn; an
\* extension is shorter than the longest path by one at least.
MaxStrLen == 3
MaxExts == 2

StrChars == {".", "p"}

StringsUpTo(n) == UNION { [1..k -> StrChars] : k \in 0..n }

\* the strings of lib.rs 399-415
Str_blade_php      == <<".", "b", "l", "a", "d", "e">> \o Str_php
Str_home_blade_php == <<"x", "/", "y", "/", "h", "o", "m", "e">> \o Str_blade_php
Str_User_php       == <<"x", "/", "y", "/", "U", "s", "e", "r">> \o Str_php

MatchPaths == StringsUpTo(MaxStrLen) \cup {Str_home_blade_php, Str_User_php}

MatchExts == StringsUpTo(MaxStrLen - 1) \cup {Str_php, Str_blade_php}

MatchExtLists == UNION { [1..n -> MatchExts] : n \in 0..MaxExts }

InitMatch ==
  /\ mode = "call"
  /\ root = <<>>
  /\ rootExists = TRUE
  /\ fs = [f \in Files |-> 0]
  /\ fsLeft = 0
  /\ SHUTDOWN = FALSE
  /\ mainPc = "call"
  /\ events = <<>>
  /\ state = EmptyMap
  /\ touched = {}
  /\ changedEver = {}
  /\ aliased = FALSE
  /\ args = <<>> /\ config = NoConfig /\ handlers = FALSE
  /\ result = "none" /\ stderr = <<>> /\ faultsLeft = 0
  /\ callIn \in [path : MatchPaths, exts : MatchExtLists]
  /\ callOut = NotReturned
  /\ NoDebouncer

CallMatches ==
  /\ mainPc = "call"
  /\ ~callOut.done
  /\ callOut' = [done |-> TRUE,
                 val |-> matches_extension(callIn.path, callIn.exts)]
  /\ UNCHANGED <<callIn, args, config, handlers, result, stderr,
                 faultsLeft, mainPc, progVars, debVars, histVars>>

SpecMatch == InitMatch /\ [][CallMatches]_vars

(***************************************************************************)
(* Properties of the program                                               *)
(***************************************************************************)
Output == Lines(sinkOut) \cup Lines(sinkBuf)

PathString(f) == to_string_lossy(Abs(root, f))

\* C3: once SHUTDOWN is set the producer starts no further wait after the
\* one it may be in, shutdown() is called, the background thread ends and
\* run_watcher / run_poller returns.
C3_TerminatesOnTrigger ==
  /\ SHUTDOWN ~> (mainPc = "returned" /\ debPc = "done")
  /\ [][(SHUTDOWN /\ mainPc = "run") => mainPc' \in {"run", "joining"}]_vars
  /\ [][mainPc = "returned" => mainPc' = "returned"]_vars

\* the trigger came with a change not yet flushed; the program has returned
\* and the change is in the output
C3_Witness ==
  /\ SHUTDOWN /\ mainPc = "returned" /\ debPc = "done"
  /\ Len(sinkOut) = 1

\* a segment that makes a path noise: hidden, vendor or node_modules
NoiseSegment(seg) ==
  StartsWithChar(seg, ".") \/ seg = Str_vendor \/ seg = Str_node_modules

HasNoiseSegment(f) == \E i \in DOMAIN f : NoiseSegment(f[i])

\* C5: no line of the output names a file with a noise segment between the
\* root and the file, the file's own name included, in either mode.
C5_NoIgnoredOutput ==
  \A f \in Files : HasNoiseSegment(f) => Line(PathString(f)) \notin Output

\* what the event-driven producer sends for the changes made so far
EventModeSends ==
  UNION { Range(WatchSends(<< Abs(root, f) >>, "Create")) : f \in changedEver }

\* C6: once the poller has sampled every change (one change of a file per
\* interval, each with a new timestamp), it has submitted the paths the
\* event-driven producer submits for the same changes.
C6_ModeEquivalence ==
  (mode = "poll" /\ touched = {} /\ ~aliased) => sent = EventModeSends

\* a step of the poll loop that scanned: it replaced the snapshot, sent
\* something or took note of the changes
PollStep ==
  \/ state' # state
  \/ Len(chan') > Len(chan)
  \/ (touched # {} /\ touched' = {})

\* what the step has put on the intake channel
Submitted == SubSeq(chan', Len(chan) + 1, Len(chan'))

Created  == DOMAIN state' \ DOMAIN state
Modified == { p \in DOMAIN state' \cap DOMAIN state : state'[p] # state[p] }
Deleted  == DOMAIN state \ DOMAIN state'

\* C7: a poll tick submits exactly the created, the modified (timestamps
\* differ) and the deleted paths of the two snapshots, and the new snapshot
\* is what a scan of the root finds.
C7_PollDiffExact ==
  [][PollStep =>
       /\ state' = Snapshot(fs)
       /\ Range(Submitted) =
            { to_string_lossy(p) : p \in Created \cup Modified \cup Deleted }]_vars

\* b.php was rewritten with its timestamp unchanged, a tick has scanned since
\* and nothing was submitted
C7_Witness ==
  /\ mode = "poll" /\ touched = {} /\ aliased
  /\ changedEver = {File_b_php} /\ fs[File_b_php] # 0
  /\ fsLeft = MaxFsOps - 1
  /\ sent = {}

\* a file the poller is meant to report: no noise segment, a configured
\* extension
Reported(f) ==
  ~HasNoiseSegment(f) /\ matches_extension(PathString(f), Extensions)

\* C8: a poll tick submits a path only if its file changed since the
\* previous snapshot (so not on a later tick, and never for an unchanged file
\* of the seed), submits no path twice, and submits every reported file that
\* appeared or disappeared since the previous snapshot.
C8_PollReportsOnce ==
  [][PollStep =>
       /\ Range(Submitted) \subseteq { PathString(f) : f \in touched }
       /\ Cardinality(Range(Submitted)) = Len(Submitted)
       /\ \A f \in Files :
            (Reported(f) /\ ((fs[f] # 0) # (Abs(root, f) \in DOMAIN state)))
              => PathString(f) \in Range(Submitted)]_vars

\* b.php was removed, a tick submitted it, the line was written once, and
\* the file in the subdirectory, unchanged since the seed, was never sent
C8_Witness ==
  /\ mode = "poll" /\ touched = {}
  /\ changedEver = {File_b_php} /\ fs[File_b_php] = 0 /\ fs[File_sub] # 0
  /\ sent = {PathString(File_b_php)}
  /\ sinkOut = << Line(PathString(File_b_php)) >>
  /\ chan = <<>> /\ pending = {} /\ debPc = "loop"

\* the root was empty and b.php has been created in it
CreatedOnly_b_php ==
  File_b_php \in changedEver /\ Present(fs) = {File_b_php}

\* C9: every line of the output is "changed: " and a submitted path ending
\* with a configured extension; b.txt never yields a line; and b.php created
\* in the root yields its line: it is there when the program has returned
\* after the producer saw the change.
C9_OnlyMatchingOutput ==
  /\ \A l \in Output :
       \E p \in sent : l = Line(p) /\ matches_extension(p, Extensions)
  /\ Line(PathString(File_b_txt)) \notin Output
  /\ (/\ mainPc = "returned"
      /\ CreatedOnly_b_php
      /\ \/ mode = "watch" /\ events = <<>>
         \/ mode = "poll" /\ touched = {} /\ ~aliased)
       => Line(PathString(File_b_php)) \in Lines(sinkOut)

\* C14: in event-driven mode, once the producer has taken every queued
\* event, each changed file that has no noise segment below the root and
\* ends with a configured extension has been submitted, whatever the
\* segments of the root's own path.
C14_IgnoreRuleBelowRoot ==
  (mode = "watch" /\ events = <<>>) =>
     \A f \in changedEver : Reported(f) => PathString(f) \in sent

\* the watcher takes an event off its queue
EventTaken ==
  /\ mode = "watch" /\ mainPc = "recv"
  /\ events # <<>> /\ events' = Tail(events)
  /\ Head(events).kind # "Error"

\* a path with a noise segment between the root and the file
IgnoredBelowRoot(path) ==
  \E i \in (Len(root) + 1)..Len(path) : NoiseSegment(path[i])

\* the paths of an event that are not ignored and end with a configured
\* extension, as strings, in the order of the event
Surviving(paths) ==
  LET keep == SelectSeq(paths, LAMBDA q :
                ~IgnoredBelowRoot(q)
                  /\ matches_extension(to_string_lossy(q), Extensions))
  IN  [i \in DOMAIN keep |-> to_string_lossy(keep[i])]

\* C15: an event that is a metadata-only modification or an access
\* notification causes no submission; an event of another kind causes one
\* submission for each of its paths that is not ignored and matches a
\* configured extension, and none for its other paths.
C15_EventKindFilter ==
  [][EventTaken =>
       Submitted = IF Head(events).kind \in {"ModifyMetadata", "Access"}
                     THEN <<>>
                     ELSE Surviving(Head(events).paths)]_vars

\* the producer has left its loop
ProducerExited == mainPc \in {"joining", "returned"}

\* nothing is taken off the watcher's queue
NoneReceived ==
  Len(events') >= Len(events) /\ SubSeq(events', 1, Len(events)) = events

\* C16: while SHUTDOWN is set and the producer stands at the head of its
\* loop (the poller: at the end of its sleep), no step submits a path,
\* builds a snapshot or takes an event; the producer's next step leaves the
\* loop; and after that nothing is submitted, scanned or received any more.
C16_NothingAfterShutdownSeen ==
  /\ [][(SHUTDOWN /\ mainPc = "run") =>
          /\ sent' = sent /\ state' = state /\ NoneReceived
          /\ mainPc' # mainPc => ProducerExited']_vars
  /\ [][ProducerExited =>
          /\ sent' = sent /\ state' = state /\ events' = events
          /\ ProducerExited']_vars

\* the poller has returned; b.php, created during its last sleep, was
\* neither scanned nor submitted
C16_Witness ==
  /\ mode = "poll" /\ root = RootPlain
  /\ mainPc = "returned" /\ result = "Ok"
  /\ touched = {File_b_php} /\ fs[File_b_php] # 0
  /\ PathString(File_b_php) \notin sent

\* the watcher takes an error off its queue
ErrorTaken ==
  /\ mode = "watch" /\ mainPc = "recv"
  /\ events # <<>> /\ events' = Tail(events)
  /\ Head(events).kind = "Error"

\* C17: when the watcher receives an error of the notification layer it
\* writes one message to stderr and goes to the next iteration: nothing is
\* submitted, the Debouncer and every other part of the state stay as they
\* are, so the events that follow are handled as without the error.
C17_WatcherErrorNonFatal ==
  [][ErrorTaken =>
       /\ Len(stderr') = Len(stderr) + 1
       /\ stderr'[Len(stderr')].prefix = "watcher error"
       /\ mainPc' = "run"
       /\ UNCHANGED <<debVars, histVars, mode, root, rootExists, fs, fsLeft,
                      SHUTDOWN, state, touched, changedEver, aliased, result, config, handlers>>]_vars

\* an error was logged, and the event that came after it has been submitted,
\* flushed and written
C17_Witness ==
  /\ mode = "watch" /\ root = RootPlain
  /\ Len(stderr) = 1 /\ faultsLeft = 0
  /\ events = <<>> /\ fsLeft = 0
  /\ sinkOut = << Line(PathString(File_b_php)) >>

\* C18: when the set-up of run_watcher / run_poller fails, the function
\* returns Err without ever entering its loop: nothing is submitted, scanned
\* or written, and the Debouncer's thread has ended when it returns.
C18_SetupFailureNoPartialRun ==
  /\ [](result = "Err" =>
          /\ ProducerExited
          /\ sent = {} /\ chan = <<>> /\ pending = {}
          /\ Written = <<>>
          /\ state = EmptyMap /\ events = <<>>
          /\ ~txOpen /\ ~handle
          /\ mainPc = "returned" => debPc = "done")
  /\ [][result = "Err" => result' = "Err" /\ ProducerExited']_vars

\* the watcher could not be set up: run_watcher has returned Err, the
\* thread has ended, no signal was needed
C18_Witness ==
  /\ mode = "watch" /\ ~SHUTDOWN
  /\ result = "Err" /\ mainPc = "returned" /\ debPc = "done"

\* C19: SHUTDOWN is false when the program starts; once true it stays
\* true; and a step that changes it is the signal handler's: the handlers
\* are installed and it changes nothing else.
C19_FlagMonotonic ==
  /\ ~SHUTDOWN
  /\ [][SHUTDOWN => SHUTDOWN']_vars
  /\ [][SHUTDOWN' # SHUTDOWN =>
          /\ handlers
          /\ SHUTDOWN' = TRUE
          /\ UNCHANGED <<mode, root, rootExists, fs, fsLeft, mainPc, events, state, touched,
                         changedEver, aliased, debVars, histVars, procVars>>]_vars

\* the flag was set while a path was pending; the program has shut down and
\* the flag is still set
C19_Witness ==
  /\ SHUTDOWN /\ mainPc = "returned" /\ result = "Ok"
  /\ Len(sinkOut) = 1

(***************************************************************************)
(* Properties of the command line and of start-up                          *)
(***************************************************************************)
\* a duration as the configuration accepts it: an integer (milliseconds), an
\* integer and "ms", or a decimal number of seconds and "s"
DecimalText(x) ==
  \E w, f \in {SubSeq(x, i, j) : i \in 1..(Len(x) + 1), j \in 0..Len(x)} :
    /\ x = w \/ x = w \o <<".">> \o f
    /\ w # <<>> /\ AllDigits(w) /\ AllDigits(f)

DurationText(d) ==
  \/ d # <<>> /\ AllDigits(d)
  \/ EndsWith(d, <<"m", "s">>) /\ 
       (LET x == StripSuffix(d, <<"m", "s">>) IN x # <<>> /\ AllDigits(x))
  \/ /\ EndsWith(d, <<"s">>) /\ ~EndsWith(d, <<"m", "s">>)
     /\ DecimalText(StripSuffix(d, <<"s">>))

\* a command line without a configuration error: options with their values,
\* durations well formed, every other argument an existing directory, and
\* one such path at least
RECURSIVE WellFormedFrom(_, _, _)
WellFormedFrom(a, i, npaths) ==
  IF i > Len(a) THEN npaths > 0
  ELSE IF a[i] = Flag_poll THEN WellFormedFrom(a, i + 1, npaths)
  ELSE IF a[i] = Flag_ext
    THEN i + 1 <= Len(a) /\ WellFormedFrom(a, i + 2, npaths)
  ELSE IF a[i] \in {Flag_poll_interval, Flag_debounce}
    THEN /\ i + 1 <= Len(a)
         /\ DurationText(a[i + 1])
         /\ WellFormedFrom(a, i + 2, npaths)
  ELSE /\ ~StartsWith(a[i], <<"-", "-">>)
       /\ Metadata(PathBufFrom(a[i]), fs) = "dir"
       /\ WellFormedFrom(a, i + 1, npaths + 1)

ConfigurationError == ~WellFormedFrom(args, 1, 0)

NothingStarted ==
  /\ ~handlers
  /\ debPc = "none" /\ ~handle /\ ~txOpen
  /\ mode = "none"
  /\ sinkOut = <<>> /\ sinkBuf = <<>>

\* C11: when the command line has a configuration error, parse_args returns
\* an error: main prints one error message and exits with status 1, and no
\* signal handler, Debouncer thread or producer loop is started and nothing
\* is written to the sink.
C11_ConfigErrorsBeforeRun ==
  (ConfigurationError /\ mainPc # "main") =>
     /\ mainPc = "exit1"
     /\ Len(stderr) = 1 /\ stderr[1].prefix = "error"
     /\ NothingStarted

\* the strings a string starts with
Prefixes(x) == { SubSeq(x, 1, k) : k \in 0..Len(x) }

\* C12: matches_extension(path, exts) is true exactly when path is some
\* string followed by one of the listed extensions; ".blade.php" matches
\* x/y/home.blade.php and not x/y/User.php, ".php" matches both, and the
\* empty list matches nothing.
C12_SuffixTest ==
  callOut.done =>
    /\ callOut.val <=>
         \E i \in DOMAIN callIn.exts :
           \E pre \in Prefixes(callIn.path) : callIn.path = pre \o callIn.exts[i]
    /\ (callIn.exts = <<Str_blade_php>> /\ callIn.path = Str_home_blade_php)
         => callOut.val
    /\ (callIn.exts = <<Str_blade_php>> /\ callIn.path = Str_User_php)
         => ~callOut.val
    /\ (callIn.exts = <<Str_php>>
          /\ callIn.path \in {Str_home_blade_php, Str_User_php})
         => callOut.val
    /\ callIn.exts = <<>> => ~callOut.val

\* ".blade.php" has been tested on x/y/User.php, which ends with ".php" only
C12_Witness ==
  /\ callOut.done /\ ~callOut.val
  /\ callIn.exts = <<Str_blade_php>> /\ callIn.path = Str_User_php

(***************************************************************************)
(* Properties of the poller when its root comes and goes                   *)
(***************************************************************************)
\* C22: in polling mode a root that cannot be resolved at a tick is no
\* failure: the loop is left only when SHUTDOWN is set and run_poller never
\* returns Err; the tick's snapshot is empty and every path of the previous
\* snapshot is submitted, once; and at the first tick that finds the root
\* again every path of the scan is submitted, once.
C22_RootDisappearance ==
  /\ [](result # "Err")
  /\ [][mainPc = "run" /\ mainPc' # "run" => SHUTDOWN]_vars
  /\ [][PollStep /\ ~rootExists =>
          /\ state' = EmptyMap
          /\ Range(Submitted) = { to_string_lossy(p) : p \in DOMAIN state }
          /\ Len(Submitted) = Cardinality(DOMAIN state)]_vars
  /\ [][PollStep /\ rootExists /\ state = EmptyMap =>
          /\ state' = Snapshot(fs)
          /\ Range(Submitted) = { to_string_lossy(p) : p \in DOMAIN state' }
          /\ Len(Submitted) = Cardinality(DOMAIN state')]_vars

\* the root went away and came back, a tick saw each of the two and the
\* same path was written after the one and after the other; the loop goes on
C22_Witness ==
  /\ mode = "poll" /\ rootExists /\ fsLeft = 0
  /\ touched = {} /\ ~aliased
  /\ \E i, j \in DOMAIN sinkOut : i < j /\ sinkOut[i] = sinkOut[j]
  /\ mainPc = "run" /\ result = "none"

====
